---------------------------- MODULE Spec2Model ----------------------------
(***************************************************************************)
(* Model of the Hunter MCP gateway: the tool-call request path             *)
(* (main.py / simple_mcp.py call_tool -> hunter_api.HunterAPI) and the     *)
(* /sse event generator.                                                   *)
(*                                                                         *)
(* Python values are tagged records: S(s) a str, I(n) an int, PyNone for   *)
(* None / JSON null, Obj(kv) a dict with ordered items, Arr(items) a list. *)
(* A keyword dictionary (tool arguments, query parameters) is a record     *)
(* over a fixed key set whose missing keys hold Absent.                    *)
(***************************************************************************)
EXTENDS Integers, Sequences, FiniteSets, TLC

VARIABLES
    server,     \* which server variant is deployed: "main" or "simple"
    pc,         \* per request: "idle", "awaiting" (outbound call in flight), "done"
    req,        \* per request: the body posted to /tools/call
    outbound,   \* per request: the calls handed to session.request
    reply,      \* per request: the upstream reply received
    apiresult,  \* per request: what the awaited HunterAPI method returned or raised
    response,   \* per request: the HTTP response of call_tool
    log,        \* per request: the log records written while handling it
    session,    \* HunterAPI.session
    created,    \* number of ClientSession objects constructed
    spc,        \* per /sse session: position of event_generator
    emitted,    \* per /sse session: the events yielded to the transport
    count,      \* per /sse session: the ping counter
    outcome,    \* per /sse session: how the generator ended
    sselog      \* per /sse session: the log records written

callvars == <<server, pc, req, outbound, reply, apiresult, response, log,
              session, created>>
ssevars  == <<spc, emitted, count, outcome, sselog>>
vars     == <<server, pc, req, outbound, reply, apiresult, response, log,
              session, created, spc, emitted, count, outcome, sselog>>

(* ------------------------------ bounds --------------------------------- *)
NumSessions == 2
MaxPings    == 2
MaxLimit    == 2
NumConc     == 2

(* --------------------------- Python values ----------------------------- *)
S(s)       == [t |-> "str", s |-> s]
I(n)       == [t |-> "int", n |-> n]
PyNone     == [t |-> "null"]
Absent     == [t |-> "absent"]
Obj(kv)    == [t |-> "obj", kv |-> kv]
Arr(items) == [t |-> "arr", items |-> items]
KV(k, v)   == [k |-> k, v |-> v]

\* bool(v) as used by `if first_name:` and `if type:`
Truthy(v) ==
    \/ v.t = "str" /\ v.s # ""
    \/ v.t = "int" /\ v.n # 0
    \/ v.t = "obj" /\ v.kv # <<>>
    \/ v.t = "arr" /\ v.items # <<>>

\* str(v) / f"{v}" for the values that end up inside messages
Str(v) ==
    CASE v.t = "str"  -> v.s
      [] v.t = "int"  -> ToString(v.n)
      [] v.t = "null" -> "None"
      [] OTHER        -> "<object>"

\* dict.get(key, default) on a parsed JSON object (last duplicate wins)
Get(o, key, default) ==
    LET hits == {i \in 1..Len(o.kv) : o.kv[i].k = key}
    IN  IF hits = {} THEN default
        ELSE o.kv[CHOOSE i \in hits : \A j \in hits : j <= i].v

(* ------------------ json.dumps(result, indent=2) ----------------------- *)
Spaces(n) == [i \in 1..n |-> " "]

RECURSIVE Join(_)
Join(parts) == IF parts = <<>> THEN "" ELSE Head(parts) \o Join(Tail(parts))

Indent(level) == Join(Spaces(2 * level))

RECURSIVE json_dumps(_, _)
json_dumps(v, level) ==
    CASE v.t = "null" -> "null"
      [] v.t = "int"  -> ToString(v.n)
      [] v.t = "str"  -> "\"" \o v.s \o "\""
      [] v.t = "obj"  ->
            IF v.kv = <<>> THEN "{}"
            ELSE "{\n"
                 \o Join([i \in 1..Len(v.kv) |->
                        Indent(level + 1) \o "\"" \o v.kv[i].k \o "\": "
                        \o json_dumps(v.kv[i].v, level + 1)
                        \o (IF i < Len(v.kv) THEN ",\n" ELSE "\n")])
                 \o Indent(level) \o "}"
      [] v.t = "arr"  ->
            IF v.items = <<>> THEN "[]"
            ELSE "[\n"
                 \o Join([i \in 1..Len(v.items) |->
                        Indent(level + 1) \o json_dumps(v.items[i], level + 1)
                        \o (IF i < Len(v.items) THEN ",\n" ELSE "\n")])
                 \o Indent(level) \o "]"

(* --------------------------- HunterAPI --------------------------------- *)
ApiKey   == "secret-key"
BASE_URL == "https://api.hunter.io/v2"

ParamKeys == {"domain", "first_name", "last_name", "company", "full_name",
              "email", "limit", "type", "api_key"}
NoParams  == [k \in ParamKeys |-> Absent]
Present(d) == {k \in DOMAIN d : d[k] # Absent}

Return(v)     == [ok |-> TRUE, value |-> v]
Raise(ty, m)  == [ok |-> FALSE, exc |-> [type |-> ty, msg |-> m]]

\* find_email testing `is not None` instead of truthiness for first_name
find_email_keep_empty(domain, first_name, last_name, company, full_name) ==
    [NoParams EXCEPT
        !.domain     = domain,
        !.first_name = IF first_name # PyNone THEN first_name ELSE Absent,
        !.last_name  = IF Truthy(last_name) THEN last_name ELSE Absent,
        !.company    = IF Truthy(company) THEN company ELSE Absent,
        !.full_name  = IF Truthy(full_name) THEN full_name ELSE Absent]

\* params built by find_email before the request
find_email(domain, first_name, last_name, company, full_name) ==
    [NoParams EXCEPT
        !.domain     = domain,
        !.first_name = IF Truthy(first_name) THEN first_name ELSE Absent,
        !.last_name  = IF Truthy(last_name) THEN last_name ELSE Absent,
        !.company    = IF Truthy(company) THEN company ELSE Absent,
        !.full_name  = IF Truthy(full_name) THEN full_name ELSE Absent]

\* params built by verify_email before the request
verify_email(email) == [NoParams EXCEPT !.email = email]

\* params built by domain_search before the request
domain_search(domain, limit, type) ==
    [NoParams EXCEPT
        !.domain = domain,
        !.limit  = limit,
        !.type   = IF Truthy(type) THEN type ELSE Absent]

\* returning the whole envelope instead of its "data" member
unwrap_data_whole(resp) ==
    IF resp.t = "obj" THEN Return(resp)
    ELSE Raise("AttributeError", "object has no attribute 'get'")

\* response.get("data", {}) in find_email / verify_email / domain_search
unwrap_data(resp) ==
    IF resp.t = "obj" THEN Return(Get(resp, "data", Obj(<<>>)))
    ELSE Raise("AttributeError", "object has no attribute 'get'")

\* params["api_key"] = self.api_key
with_api_key(params) == [params EXCEPT !.api_key = S(ApiKey)]

\* the call handed to self.session.request(method, url, params=params)
OutboundCall(method, endpoint, params, sess) ==
    [method |-> method, url |-> BASE_URL \o "/" \o endpoint,
     params |-> with_api_key(params), session |-> sess]

\* the error body as read by `await response.json()` in the handler
error_data(u) ==
    IF u.json THEN u.body ELSE Obj(<<KV("error", S(u.reason))>>)

\* the ValueError raised from the ClientResponseError handler
api_error(u) ==
    LET data   == error_data(u)
        errors == IF data.t = "obj"
                  THEN Get(data, "errors", Arr(<<Obj(<<KV("details", S(u.reason))>>)>>))
                  ELSE Absent
    IN  IF data.t # "obj"
        THEN Raise("AttributeError", "object has no attribute 'get'")
        ELSE IF errors.t # "arr" \/ errors.items = <<>>
        THEN Raise("IndexError", "list index out of range")
        ELSE IF errors.items[1].t # "obj"
        THEN Raise("AttributeError", "object has no attribute 'get'")
        ELSE Raise("ValueError",
                   "Hunter API error: " \o Str(Get(errors.items[1], "details", PyNone)))

\* outcome of _request once the upstream reply u is known
request_outcome(u) ==
    CASE u.kind = "response" /\ u.status \in 200..299 -> Return(u.body)
      [] u.kind = "response" /\ u.status \notin 200..299 ->
            IF u.json /\ ~u.readable
            THEN Raise("ClientConnectionError", "Connection closed")
            ELSE api_error(u)
      [] u.kind = "client_error" -> Raise("ValueError", "Request error: " \o u.reason)
      [] u.kind = "timeout"      -> Raise("TimeoutError", "")

(* ------------------------- /tools/call --------------------------------- *)
Keys   == {"domain", "first_name", "last_name", "company", "full_name",
           "email", "limit", "type", "bogus"}
NoArgs == [k \in Keys |-> Absent]

FindEmailKwargs == {"domain", "first_name", "last_name", "company", "full_name"}

\* a keyword parameter that defaults to None
Kw(arguments, k) == IF arguments[k] = Absent THEN PyNone ELSE arguments[k]

\* arguments.get(k, default)
ArgGet(arguments, k, default) ==
    IF arguments[k] = Absent THEN default ELSE arguments[k]

Call(endpoint, params) == Return([endpoint |-> endpoint, params |-> params])

\* hunter_api.find_email(**arguments): keyword binding, then the params
call_find_email(arguments) ==
    LET extra == Present(arguments) \ FindEmailKwargs
    IN  IF extra # {}
        THEN Raise("TypeError",
                   "HunterAPI.find_email() got an unexpected keyword argument '"
                   \o (CHOOSE k \in extra : TRUE) \o "'")
        ELSE IF arguments.domain = Absent
        THEN Raise("TypeError",
                   "HunterAPI.find_email() missing 1 required positional argument: 'domain'")
        ELSE Call("email-finder",
                  find_email(arguments.domain, Kw(arguments, "first_name"),
                             Kw(arguments, "last_name"), Kw(arguments, "company"),
                             Kw(arguments, "full_name")))

\* hunter_api.verify_email(arguments["email"])
call_verify_email(arguments) ==
    IF arguments.email = Absent THEN Raise("KeyError", "'email'")
    ELSE Call("email-verifier", verify_email(arguments.email))

\* main.py: limit / type extraction, then hunter_api.domain_search(...)
call_domain_search(arguments) ==
    LET limit      == ArgGet(arguments, "limit", I(10))
        email_type == ArgGet(arguments, "type", PyNone)
    IN  IF arguments.domain = Absent THEN Raise("KeyError", "'domain'")
        ELSE Call("domain-search", domain_search(arguments.domain, limit, email_type))

\* simple_mcp.py: hunter_api.domain_search(arguments["domain"])
call_domain_search_simple(arguments) ==
    IF arguments.domain = Absent THEN Raise("KeyError", "'domain'")
    ELSE Call("domain-search", domain_search(arguments.domain, I(10), PyNone))

\* TOOLS[*].inputSchema of main.py: required, anyOf, property types, enum
input_schema_valid(name, arguments) ==
    LET isStr(k) == arguments[k] = Absent \/ arguments[k].t = "str"
        has(k)   == arguments[k] # Absent
    IN  CASE name = S("email_finder") ->
                /\ has("domain")
                /\ (has("first_name") /\ has("last_name")) \/ has("full_name")
                /\ \A k \in FindEmailKwargs : isStr(k)
          [] name = S("email_verifier") ->
                has("email") /\ isStr("email")
          [] name = S("domain_search") ->
                /\ has("domain") /\ isStr("domain")
                /\ (has("limit") => arguments.limit.t = "int")
                /\ (has("type") => arguments.type \in {S("personal"), S("generic")})
          [] OTHER -> FALSE

\* tool names the if/elif chain of each server variant dispatches
Registered(srv) ==
    IF srv = "main"
    THEN {S("email_finder"), S("email_verifier"), S("domain_search")}
    ELSE {S("email_finder"), S("domain_search")}

\* the branch of the if/elif chain taken for a registered name
dispatch(srv, name, arguments) ==
    CASE name = S("email_finder")   -> call_find_email(arguments)
      [] name = S("email_verifier") -> call_verify_email(arguments)
      [] name = S("domain_search")  ->
            IF srv = "main" THEN call_domain_search(arguments)
            ELSE call_domain_search_simple(arguments)

\* HTTP responses of the handler
NoResponse      == [kind |-> "none"]
Content(text)   == [kind |-> "result", status |-> 200,
                    content |-> <<[type |-> "text", text |-> text]>>]
JSONResponse(status, message) ==
                   [kind |-> "error", status |-> status, error |-> message]
Unhandled(exc)  == [kind |-> "unhandled", exc |-> exc]

\* log records
LogRec(logger, level, text, data) ==
    [logger |-> logger, level |-> level, text |-> text, data |-> data]

LoggerName(srv) == IF srv = "main" THEN "hunter-mcp" ELSE "hunter-mcp-simple"

\* data.get("name") and data.get("arguments", {}) of the parsed body
BodyName(body) == IF body.name = Absent THEN PyNone ELSE body.name
BodyArguments(body) == IF body.arguments = Absent THEN NoArgs ELSE body.arguments

\* exception raised by `await request.json()` / `data.get` on a bad body
body_error(body) ==
    IF body.kind = "unparseable"
    THEN [type |-> "JSONDecodeError", msg |-> "Expecting value: line 1 column 1 (char 0)"]
    ELSE [type |-> "AttributeError", msg |-> "'list' object has no attribute 'get'"]

\* the except-Exception clause of call_tool
error_reply(srv, name, exc) ==
    [response |-> JSONResponse(500, exc.msg),
     log |-> <<LogRec(LoggerName(srv), "ERROR",
                      IF srv = "main"
                      THEN "Error executing tool " \o Str(name) \o ": " \o exc.msg
                      ELSE "Error executing tool: " \o exc.msg,
                      Absent)>>]

\* the else branch answering 400 instead of 404
unknown_tool_400(name) == JSONResponse(400, "Unknown tool: " \o Str(name))

\* the else branch of the if/elif chain
unknown_tool(name) == JSONResponse(404, "Unknown tool: " \o Str(name))

\* call_tool up to its first outbound await: what it answers, logs and sends
call_tool_begin(srv, body, sess) ==
    IF body.kind # "object"
    THEN IF srv = "main"
         THEN [next |-> "done", response |-> Unhandled(body_error(body)),
               log |-> <<>>, calls |-> <<>>]
         ELSE [next |-> "done",
               response |-> error_reply(srv, PyNone, body_error(body)).response,
               log |-> error_reply(srv, PyNone, body_error(body)).log,
               calls |-> <<>>]
    ELSE
    LET name      == BodyName(body)
        arguments == BodyArguments(body)
        called    == <<LogRec(LoggerName(srv), "INFO",
                              "Tool call: " \o Str(name) \o " with arguments ",
                              arguments)>>
    IN  IF name \notin Registered(srv)
        THEN [next |-> "done",
              response |-> unknown_tool(name),
              log |-> IF srv = "main" THEN called
                      ELSE called \o <<LogRec(LoggerName(srv), "ERROR",
                                              "Unknown tool: " \o Str(name), Absent)>>,
              calls |-> <<>>]
        ELSE
        LET d == dispatch(srv, name, arguments)
        IN  IF ~d.ok
            THEN [next |-> "done",
                  response |-> error_reply(srv, name, d.exc).response,
                  log |-> called \o error_reply(srv, name, d.exc).log,
                  calls |-> <<>>]
            ELSE
            LET out == OutboundCall("GET", d.value.endpoint, d.value.params, sess)
            IN  [next |-> "awaiting", response |-> NoResponse,
                 log |-> called \o
                         <<LogRec("hunter-api", "DEBUG",
                                  "Making GET request to " \o out.url \o " with params ",
                                  out.params)>>,
                 calls |-> <<out>>]

\* log lines of the except clauses of _request
request_log(u) ==
    CASE u.kind = "response" /\ u.status \notin 200..299 ->
            <<LogRec("hunter-api", "ERROR",
                     "API error: " \o ToString(u.status) \o " - " \o u.reason, Absent)>>
      [] u.kind = "client_error" ->
            <<LogRec("hunter-api", "ERROR", "Request error: " \o u.reason, Absent)>>
      [] OTHER -> <<>>

\* the rest of call_tool once the upstream reply u has arrived
call_tool_finish(srv, body, u) ==
    LET r1 == request_outcome(u)
        r2 == IF r1.ok THEN unwrap_data(r1.value) ELSE r1
    IN  IF r2.ok
        THEN [result |-> r2, response |-> Content(json_dumps(r2.value, 0)),
              log |-> request_log(u)]
        ELSE [result |-> r2,
              response |-> error_reply(srv, BodyName(body), r2.exc).response,
              log |-> request_log(u) \o error_reply(srv, BodyName(body), r2.exc).log]

\* logging.basicConfig(level=...): the levels whose records are written
EnabledLevels(srv) ==
    IF srv = "main" THEN {"DEBUG", "INFO", "ERROR"} ELSE {"INFO", "ERROR"}

\* the records of recs that pass the configured level
written(srv, recs) == SelectSeq(recs, LAMBDA rec : rec.level \in EnabledLevels(srv))

\* _ensure_session constructing a ClientSession on every call
ensure_session_always_new(sess, n) == [t |-> "session", id |-> n + 1]

\* _ensure_session
ensure_session(sess, n) ==
    IF sess = PyNone THEN [t |-> "session", id |-> n + 1] ELSE sess

(* ------------------------------ inputs --------------------------------- *)
Args(dom, fn, ln, co, full, em, lim, ty, bg) ==
    [domain |-> dom, first_name |-> fn, last_name |-> ln, company |-> co,
     full_name |-> full, email |-> em, limit |-> lim, type |-> ty, bogus |-> bg]

ObjectBody(name, arguments) ==
    [kind |-> "object", name |-> name, arguments |-> arguments]
BadBody(kind) == [kind |-> kind, name |-> Absent, arguments |-> Absent]

Domains == {Absent, S("acme.com")}
Names   == {Absent, S("email_finder"), S("email_verifier"), S("domain_search"),
            S("nonexistent_tool")}

FinderArgs ==
    {Args(d, fn, ln, Absent, full, Absent, Absent, Absent, bg) :
        d \in Domains, fn \in {Absent, S("Ada")}, ln \in {Absent, S("Byron")},
        full \in {Absent, S("Ada Byron")}, bg \in {Absent}}
    \cup {Args(S("acme.com"), S("Ada"), S("Byron"), Absent, Absent, Absent,
               Absent, Absent, S("x"))}
VerifierArgs ==
    {Args(Absent, Absent, Absent, Absent, Absent, em, Absent, Absent, Absent) :
        em \in {Absent, S("a@b.com")}}
SearchArgs ==
    {Args(d, Absent, Absent, Absent, Absent, Absent, lim, ty, Absent) :
        d \in Domains, lim \in {Absent, PyNone} \cup {I(n) : n \in 0..MaxLimit},
        ty \in {Absent, S(""), S("personal"), S("bogus")}}

Bodies ==
    {BadBody("unparseable"), BadBody("nonobject")}
    \cup {ObjectBody(n, Absent) : n \in Names}
    \cup {ObjectBody(S("email_finder"), a) : a \in FinderArgs}
    \cup {ObjectBody(S("email_verifier"), a) : a \in VerifierArgs}
    \cup {ObjectBody(S("domain_search"), a) : a \in SearchArgs}
    \cup {ObjectBody(n, a) : n \in {Absent, S("nonexistent_tool")},
                             a \in {Args(S("acme.com"), Absent, Absent, Absent, Absent,
                                         S("a@b.com"), Absent, Absent, Absent)}}

\* every combination of the optional fields of find_email
AllFinderArgs ==
    {Args(d, fn, ln, co, full, Absent, Absent, Absent, Absent) :
        d \in {S("acme.com")},
        fn \in {Absent, S(""), S("Ada")}, ln \in {Absent, S(""), S("Byron")},
        co \in {Absent, S(""), S("Acme")}, full \in {Absent, S(""), S("Ada Byron")}}
FinderBodies == {ObjectBody(S("email_finder"), a) : a \in AllFinderArgs}

Reply(kind, status, reason, json, readable, body) ==
    [kind |-> kind, status |-> status, reason |-> reason, json |-> json,
     readable |-> readable, body |-> body]

DataFull  == Obj(<<KV("email", S("a@b.com")), KV("score", I(90))>>)
OkBodies  == {Obj(<<KV("data", DataFull)>>), Obj(<<KV("data", Obj(<<>>))>>), Obj(<<>>)}
ErrBodies == {Obj(<<KV("errors", Arr(<<Obj(<<KV("details", S("Invalid API key"))>>)>>))>>),
              Obj(<<KV("errors", Arr(<<>>))>>),
              Obj(<<KV("message", S("rate limited"))>>)}

InvalidKeyReply ==
    Obj(<<KV("errors", Arr(<<Obj(<<KV("details", S("Invalid API key"))>>)>>))>>)

\* upstream replies: 2xx JSON, non-2xx JSON (body still readable or not after
\* the response context is left), non-2xx non-JSON, connection failure, timeout
Upstream ==
    {Reply("response", 200, "OK", TRUE, TRUE, b) : b \in OkBodies}
    \cup {Reply("response", 401, "Unauthorized", TRUE, rd, b) :
              rd \in BOOLEAN, b \in ErrBodies}
    \cup {Reply("response", 502, "Bad Gateway", FALSE, FALSE, PyNone)}
    \cup {Reply("client_error", 0, "Cannot connect to host api.hunter.io:443",
                FALSE, FALSE, PyNone)}
    \cup {Reply("timeout", 0, "", FALSE, FALSE, PyNone)}

NoReply  == Reply("none", 0, "", FALSE, FALSE, PyNone)
NoResult == [ok |-> FALSE, exc |-> [type |-> "none", msg |-> ""]]

(* ------------------------------ actions -------------------------------- *)
\* POST /tools/call arrives with `body`; the handler runs to its outbound await
CallToolBegin(r, body) ==
    /\ pc[r] \in {"idle", "done"}
    /\ LET b == call_tool_begin(server, body, ensure_session(session, created))
       IN  /\ pc' = [pc EXCEPT ![r] = b.next]
           /\ req' = [req EXCEPT ![r] = body]
           /\ response' = [response EXCEPT ![r] = b.response]
           /\ log' = [log EXCEPT ![r] = written(server, b.log)]
           /\ outbound' = [outbound EXCEPT ![r] = b.calls]
           /\ reply' = [reply EXCEPT ![r] = NoReply]
           /\ apiresult' = [apiresult EXCEPT ![r] = NoResult]
           /\ session' = IF b.calls # <<>> THEN ensure_session(session, created)
                         ELSE session
           /\ created' = IF b.calls # <<>> /\ ensure_session(session, created) # session
                         THEN created + 1
                         ELSE created
    /\ UNCHANGED <<server>>
    /\ UNCHANGED ssevars

\* the upstream reply u arrives; the handler runs to its return
UpstreamReply(r, u) ==
    /\ pc[r] = "awaiting"
    /\ LET f == call_tool_finish(server, req[r], u)
       IN  /\ response' = [response EXCEPT ![r] = f.response]
           /\ apiresult' = [apiresult EXCEPT ![r] = f.result]
           /\ log' = [log EXCEPT ![r] = log[r] \o written(server, f.log)]
    /\ reply' = [reply EXCEPT ![r] = u]
    /\ pc' = [pc EXCEPT ![r] = "done"]
    /\ UNCHANGED <<server, req, outbound, session, created>>
    /\ UNCHANGED ssevars

(* -------------------------- /sse (main.py) ----------------------------- *)
\* Positions of event_generator: "start" (created, not yet run), "y_*"
\* (suspended at a yield, the event handed to the transport), "sleep*"
\* (suspended in asyncio.sleep), "done" (finished).
Event(name, data) == [event |-> name, data |-> data]

ConnectedEvent    == Event("connected",
                           "{\"server\": \"hunter-mcp\", \"version\": \"1.0.0\"}")
CapabilitiesEvent == Event("capabilities",
                           "{\"tools\": true, \"resources\": true, \"logging\": true}")
InitCompleteEvent == Event("initialization_complete", "{}")
PingEvent         == Event("ping", "{\"timestamp\": <loop time>}")

SseLog(level, text) == LogRec("hunter-mcp", level, text, Absent)

\* event_generator with the capabilities and initialization_complete
\* blocks exchanged
run_to_yield_swapped(at, n) ==
    CASE at = "start"  -> [next |-> "y_connected", events |-> <<ConnectedEvent>>,
                           count |-> n,
                           log |-> <<SseLog("INFO", "Sending connected event")>>]
      [] at = "sleep1" -> [next |-> "y_capabilities", events |-> <<InitCompleteEvent>>,
                           count |-> n,
                           log |-> <<SseLog("INFO", "Sending initialization_complete event")>>]
      [] at = "sleep2" -> [next |-> "y_init", events |-> <<CapabilitiesEvent>>,
                           count |-> n,
                           log |-> <<SseLog("INFO", "Sending capabilities event")>>]
      [] at = "sleep3" -> [next |-> "sleep_ping", events |-> <<>>, count |-> 0,
                           log |-> <<>>]
      [] at = "sleep_ping" ->
                          [next |-> "y_ping", events |-> <<PingEvent>>, count |-> n + 1,
                           log |-> <<SseLog("DEBUG",
                                            "Sending ping event " \o ToString(n + 1))>>]

\* the generator runs from a sleep (or its start) to its next suspension:
\* the event it yields there, the line it logs, or the next sleep it enters
run_to_yield(at, n) ==
    CASE at = "start"  -> [next |-> "y_connected", events |-> <<ConnectedEvent>>,
                           count |-> n,
                           log |-> <<SseLog("INFO", "Sending connected event")>>]
      [] at = "sleep1" -> [next |-> "y_capabilities", events |-> <<CapabilitiesEvent>>,
                           count |-> n,
                           log |-> <<SseLog("INFO", "Sending capabilities event")>>]
      [] at = "sleep2" -> [next |-> "y_init", events |-> <<InitCompleteEvent>>,
                           count |-> n,
                           log |-> <<SseLog("INFO", "Sending initialization_complete event")>>]
      [] at = "sleep3" -> [next |-> "sleep_ping", events |-> <<>>, count |-> 0,
                           log |-> <<>>]
      [] at = "sleep_ping" ->
                          [next |-> "y_ping", events |-> <<PingEvent>>, count |-> n + 1,
                           log |-> <<SseLog("DEBUG",
                                            "Sending ping event " \o ToString(n + 1))>>]

\* the transport asks for the next item: the generator leaves its yield and
\* enters the following asyncio.sleep
after_yield(at) ==
    CASE at = "y_connected"    -> "sleep1"
      [] at = "y_capabilities" -> "sleep2"
      [] at = "y_init"         -> "sleep3"
      [] at = "y_ping"         -> "sleep_ping"

Yields == {"y_connected", "y_capabilities", "y_init", "y_ping"}
Sleeps == {"sleep1", "sleep2", "sleep3", "sleep_ping"}

\* what is thrown into the generator when the session is closed: CancelledError
\* at an await, GeneratorExit (aclose) at a yield or before the first step
thrown_at(at) == IF at \in Sleeps THEN "CancelledError" ELSE "GeneratorExit"

\* except clauses that log the cancellation and re-raise it
on_exception_reraise(exc) ==
    CASE exc = "CancelledError" ->
            [outcome |-> "raised",
             log |-> <<SseLog("INFO", "SSE connection was cancelled")>>]
      [] exc = "GeneratorExit" -> [outcome |-> "closed", log |-> <<>>]
      [] OTHER ->
            [outcome |-> "raised",
             log |-> <<SseLog("ERROR", "Error in SSE event generator: " \o exc)>>]

\* the except clauses of event_generator
on_exception(exc) ==
    CASE exc = "CancelledError" ->
            [outcome |-> "returned",
             log |-> <<SseLog("INFO", "SSE connection was cancelled")>>]
      [] exc = "GeneratorExit" -> [outcome |-> "closed", log |-> <<>>]
      [] OTHER ->
            [outcome |-> "raised",
             log |-> <<SseLog("ERROR", "Error in SSE event generator: " \o exc)>>]

\* GET /sse: sse_endpoint creates the generator and returns the response
SseOpen(s) ==
    /\ spc[s] = "new"
    /\ spc' = [spc EXCEPT ![s] = "start"]
    /\ sselog' = [sselog EXCEPT ![s] =
                    <<SseLog("INFO", "SSE connection requested from client")>>]
    /\ UNCHANGED <<emitted, count, outcome>>
    /\ UNCHANGED callvars

\* the generator is stepped for the first time, or a sleep elapses
SseWake(s) ==
    /\ spc[s] \in {"start"} \cup Sleeps
    /\ spc[s] = "sleep_ping" => count[s] < MaxPings
    /\ LET g == run_to_yield(spc[s], count[s])
       IN  /\ spc' = [spc EXCEPT ![s] = g.next]
           /\ emitted' = [emitted EXCEPT ![s] = emitted[s] \o g.events]
           /\ count' = [count EXCEPT ![s] = g.count]
           /\ sselog' = [sselog EXCEPT ![s] = sselog[s] \o g.log]
    /\ UNCHANGED <<outcome>>
    /\ UNCHANGED callvars

\* the transport has sent the event and asks the generator for the next one
SseResume(s) ==
    /\ spc[s] \in Yields
    /\ spc' = [spc EXCEPT ![s] = after_yield(spc[s])]
    /\ UNCHANGED <<emitted, count, outcome, sselog>>
    /\ UNCHANGED callvars

\* the client disconnects or the task is cancelled, wherever the generator is
SseClose(s) ==
    /\ spc[s] \in {"start"} \cup Yields \cup Sleeps
    /\ LET h == on_exception(thrown_at(spc[s]))
       IN  /\ outcome' = [outcome EXCEPT ![s] = h.outcome]
           /\ sselog' = [sselog EXCEPT ![s] = sselog[s] \o h.log]
    /\ spc' = [spc EXCEPT ![s] = "done"]
    /\ UNCHANGED <<emitted, count>>
    /\ UNCHANGED callvars

(* --------------------------- specifications ---------------------------- *)
Reqs     == {"r1"}
Sessions == 1..NumSessions

Init ==
    /\ server \in {"main", "simple"}
    /\ pc = [r \in Reqs |-> "idle"]
    /\ req = [r \in Reqs |-> BadBody("none")]
    /\ outbound = [r \in Reqs |-> <<>>]
    /\ reply = [r \in Reqs |-> NoReply]
    /\ apiresult = [r \in Reqs |-> NoResult]
    /\ response = [r \in Reqs |-> NoResponse]
    /\ log = [r \in Reqs |-> <<>>]
    /\ session = PyNone
    /\ created = 0
    /\ spc = [s \in Sessions |-> "new"]
    /\ emitted = [s \in Sessions |-> <<>>]
    /\ count = [s \in Sessions |-> 0]
    /\ outcome = [s \in Sessions |-> "running"]
    /\ sselog = [s \in Sessions |-> <<>>]

\* the tool-call path of either server variant
Next ==
    \/ \E r \in DOMAIN pc, body \in Bodies : CallToolBegin(r, body)
    \/ \E r \in DOMAIN pc, u \in Upstream : UpstreamReply(r, u)

Spec == Init /\ [][Next]_vars

\* find_email over every combination of its optional fields
NextFind ==
    \/ \E r \in DOMAIN pc, body \in FinderBodies : CallToolBegin(r, body)
    \/ \E r \in DOMAIN pc, u \in Upstream : UpstreamReply(r, u)

SpecFind == Init /\ [][NextFind]_vars

\* the /sse sessions of the canonical server
InitSSE == Init /\ server = "main"

NextSSE ==
    \/ \E s \in DOMAIN spc : SseOpen(s)
    \/ \E s \in DOMAIN spc : SseWake(s)
    \/ \E s \in DOMAIN spc : SseResume(s)
    \/ \E s \in DOMAIN spc : SseClose(s)

SpecSSE == InitSSE /\ [][NextSSE]_vars

\* concurrently running tool calls on the shared HunterAPI instance
ConcReqs == 1..NumConc

ConcBodies ==
    {ObjectBody(S("email_verifier"),
                Args(Absent, Absent, Absent, Absent, Absent, S("a@b.com"),
                     Absent, Absent, Absent)),
     ObjectBody(S("domain_search"),
                Args(S("acme.com"), Absent, Absent, Absent, Absent, Absent,
                     Absent, Absent, Absent)),
     ObjectBody(S("nonexistent_tool"), Absent)}

ConcUpstream ==
    {Reply("response", 200, "OK", TRUE, TRUE, Obj(<<KV("data", DataFull)>>)),
     Reply("response", 401, "Unauthorized", TRUE, TRUE, InvalidKeyReply),
     Reply("timeout", 0, "", FALSE, FALSE, PyNone)}

InitConc ==
    /\ server \in {"main", "simple"}
    /\ pc = [r \in ConcReqs |-> "idle"]
    /\ req = [r \in ConcReqs |-> BadBody("none")]
    /\ outbound = [r \in ConcReqs |-> <<>>]
    /\ reply = [r \in ConcReqs |-> NoReply]
    /\ apiresult = [r \in ConcReqs |-> NoResult]
    /\ response = [r \in ConcReqs |-> NoResponse]
    /\ log = [r \in ConcReqs |-> <<>>]
    /\ session = PyNone
    /\ created = 0
    /\ spc = [s \in Sessions |-> "new"]
    /\ emitted = [s \in Sessions |-> <<>>]
    /\ count = [s \in Sessions |-> 0]
    /\ outcome = [s \in Sessions |-> "running"]
    /\ sselog = [s \in Sessions |-> <<>>]

NextConc ==
    \/ \E r \in DOMAIN pc, body \in ConcBodies : CallToolBegin(r, body)
    \/ \E r \in DOMAIN pc, u \in ConcUpstream : UpstreamReply(r, u)

SpecConc == InitConc /\ [][NextConc]_vars

(* ------------------------------ claims --------------------------------- *)
MainTools == {S("email_finder"), S("email_verifier"), S("domain_search")}
ToolsOf(srv) == IF srv = "main" THEN MainTools ELSE MainTools \ {S("email_verifier")}

ExpectedEvent(i) ==
    CASE i = 1 -> "connected"
      [] i = 2 -> "capabilities"
      [] i = 3 -> "initialization_complete"
      [] OTHER -> "ping"

\* how many events a session has yielded when its generator is at `at`
YieldedAt(at, n) ==
    CASE at \in {"new", "start"}              -> 0
      [] at \in {"y_connected", "sleep1"}     -> 1
      [] at \in {"y_capabilities", "sleep2"}  -> 2
      [] at \in {"y_init", "sleep3"}          -> 3
      [] at \in {"sleep_ping", "y_ping"}      -> 3 + n

\* C1: every /sse session of main.py has emitted, at every moment, a prefix
\* of connected, capabilities, initialization_complete, ping, ping, ...: the
\* i-th event is the i-th of that sequence, none is skipped or repeated at
\* the generator's position, and a ping only follows initialization_complete.
C1_HandshakeThenPings ==
    \A s \in DOMAIN spc :
        /\ \A i \in 1..Len(emitted[s]) : emitted[s][i].event = ExpectedEvent(i)
        /\ spc[s] # "done" => Len(emitted[s]) = YieldedAt(spc[s], count[s])

C1_Witness ==
    \E s \in DOMAIN spc :
        /\ spc[s] = "y_ping"
        /\ Len(emitted[s]) >= 5
        /\ emitted[s][3].event = "initialization_complete"
        /\ emitted[s][5].event = "ping"

\* C2: closing a session, wherever its generator is suspended, ends the
\* generator without an error (it returns or is closed, never raises), and a
\* closed session stays closed and emits nothing more.
C2_CloseIsFinalAndClean ==
    [][\A s \in DOMAIN spc :
          /\ (spc[s] # "done" /\ spc'[s] = "done")
                => (outcome'[s] \in {"returned", "closed"} /\ emitted'[s] = emitted[s])
          /\ spc[s] = "done"
                => (spc'[s] = "done" /\ emitted'[s] = emitted[s]
                    /\ outcome'[s] = outcome[s])]_vars

C2_Witness ==
    \E s, o \in DOMAIN spc :
        /\ spc[s] = "done" /\ outcome[s] = "returned" /\ count[s] >= 1
        /\ spc[o] = "done" /\ outcome[o] = "closed" /\ Len(emitted[o]) = 2

\* C3: a /tools/call whose name is not a registered tool (or is missing) is
\* answered 404 {"error": "Unknown tool: <name>"} and issues no outbound call.
C3_UnknownTool404 ==
    \A r \in DOMAIN pc :
        (req[r].kind = "object" /\ BodyName(req[r]) \notin ToolsOf(server))
            => /\ pc[r] = "done"
               /\ outbound[r] = <<>>
               /\ response[r] = [kind |-> "error", status |-> 404,
                                 error |-> "Unknown tool: " \o
                                    (IF req[r].name = Absent THEN "None"
                                     ELSE req[r].name.s)]

C3_Witness ==
    \E r \in DOMAIN pc :
        /\ pc[r] = "done"
        /\ req[r].kind = "object" /\ req[r].name = S("nonexistent_tool")
        /\ req[r].arguments # Absent
        /\ response[r].kind = "error" /\ response[r].status = 404
        /\ response[r].error = "Unknown tool: nonexistent_tool"

\* C4: a request of main.py whose arguments violate the tool's inputSchema
\* never reaches the upstream client: no outbound call is issued for it.
C4_InvalidNeverDispatched ==
    \A r \in DOMAIN pc :
        (/\ server = "main"
         /\ req[r].kind = "object"
         /\ BodyName(req[r]) \in MainTools
         /\ ~input_schema_valid(BodyName(req[r]), BodyArguments(req[r])))
            => outbound[r] = <<>>

\* C5: every failure of an outbound call leaves the HunterAPI method as a
\* ValueError, never as another exception type.
C5_OnlyValueErrorEscapes ==
    \A r \in DOMAIN pc :
        (pc[r] = "done" /\ outbound[r] # <<>> /\ ~apiresult[r].ok)
            => apiresult[r].exc.type = "ValueError"

HasErrors(u) ==
    /\ u.json
    /\ u.body.t = "obj"
    /\ Get(u.body, "errors", Arr(<<>>)).t = "arr"
    /\ Get(u.body, "errors", Arr(<<>>)).items # <<>>

ExpectedErrorMessage(u) ==
    IF HasErrors(u)
    THEN Str(Get(Get(u.body, "errors", Arr(<<>>)).items[1], "details", PyNone))
    ELSE u.reason

EndsWith(text, suffix) ==
    \E prefix \in {"", "Hunter API error: ", "Request error: "} :
        text = prefix \o suffix

InvalidKeyBody ==
    Obj(<<KV("errors", Arr(<<Obj(<<KV("details", S("Invalid API key"))>>)>>))>>)

\* C6: for a non-2xx upstream response the uniform error's message is the
\* details of the first entry of the body's errors array, and otherwise
\* (non-JSON body, no errors member, empty errors array) the status message;
\* a 401 with errors[0].details = "Invalid API key" makes /tools/call answer
\* 500 with an error ending in "Invalid API key". (Stated for replies whose
\* body can still be read by the handler.)
C6_ErrorMessageOrFallback ==
    \A r \in DOMAIN pc :
        (/\ pc[r] = "done"
         /\ reply[r].kind = "response" /\ reply[r].status \notin 200..299
         /\ reply[r].json => reply[r].readable)
            => /\ ~apiresult[r].ok
               /\ apiresult[r].exc.type = "ValueError"
               /\ apiresult[r].exc.msg =
                      "Hunter API error: " \o ExpectedErrorMessage(reply[r])
               /\ ((reply[r].status = 401 /\ reply[r].body = InvalidKeyBody)
                      => (/\ response[r].kind = "error"
                          /\ response[r].status = 500
                          /\ EndsWith(response[r].error, "Invalid API key")))

\* C7: every failed /tools/call that names a registered tool, or whose body
\* cannot be parsed or is not an object, is answered 500 {error: <message>};
\* no exception leaves the handler.
C7_FailuresAnswered500 ==
    \A r \in DOMAIN pc :
        (/\ pc[r] = "done"
         /\ \/ req[r].kind \in {"unparseable", "nonobject"}
            \/ BodyName(req[r]) \in ToolsOf(server)
         /\ response[r].kind # "result")
            => response[r].kind = "error" /\ response[r].status = 500

OptionalFinderFields == {"first_name", "last_name", "company", "full_name"}

\* C8: the outbound call of find_email carries exactly domain, api_key and
\* the optional fields that were supplied non-empty, each with the value
\* supplied; absent and empty optional fields are omitted.
C8_FindEmailParams ==
    \A r \in DOMAIN pc :
        (/\ req[r].kind = "object" /\ req[r].name = S("email_finder")
         /\ outbound[r] # <<>>)
            => LET a == BodyArguments(req[r])
                   p == outbound[r][1].params
                   supplied == {k \in OptionalFinderFields :
                                   a[k] # Absent /\ a[k] # S("")}
               IN  /\ Present(p) = {"domain", "api_key"} \cup supplied
                   /\ p.domain = a.domain
                   /\ p.api_key = S(ApiKey)
                   /\ \A k \in supplied : p[k] = a[k]

C8_Witness ==
    \E r \in DOMAIN pc :
        /\ req[r].kind = "object" /\ req[r].name = S("email_finder")
        /\ outbound[r] # <<>>
        /\ req[r].arguments.first_name = S("")
        /\ req[r].arguments.last_name = Absent
        /\ req[r].arguments.company = S("Acme")
        /\ req[r].arguments.full_name = S("")
        /\ Present(outbound[r][1].params) = {"domain", "api_key", "company"}

EndpointOf(name) ==
    CASE name = S("email_finder")   -> "https://api.hunter.io/v2/email-finder"
      [] name = S("email_verifier") -> "https://api.hunter.io/v2/email-verifier"
      [] name = S("domain_search")  -> "https://api.hunter.io/v2/domain-search"

\* the text json.dumps(..., indent=2) gives for the data of an upstream body
ExpectedText(body) ==
    IF body = Obj(<<KV("data", DataFull)>>)
    THEN "{\n  \"email\": \"a@b.com\",\n  \"score\": 90\n}"
    ELSE "{}"

\* C9: a successful /tools/call has issued exactly one outbound GET, to its
\* tool's endpoint and with the api_key, and answers one text block holding
\* the pretty-printed data of the upstream body ({} when data is absent);
\* email_verifier sends the email it was given. No request issues a second call.
C9_OneCallOneTextBlock ==
    \A r \in DOMAIN pc :
        /\ Len(outbound[r]) <= 1
        /\ (pc[r] = "done" /\ response[r].kind = "result")
            => /\ Len(outbound[r]) = 1
               /\ outbound[r][1].method = "GET"
               /\ outbound[r][1].url = EndpointOf(req[r].name)
               /\ outbound[r][1].params.api_key = S(ApiKey)
               /\ response[r].status = 200
               /\ response[r].content =
                      <<[type |-> "text", text |-> ExpectedText(reply[r].body)]>>
               /\ (req[r].name = S("email_verifier")
                      => (/\ outbound[r][1].params.email = req[r].arguments.email
                          /\ Present(outbound[r][1].params) = {"email", "api_key"}))

C9_Witness ==
    \E r \in DOMAIN pc :
        /\ pc[r] = "done" /\ response[r].kind = "result"
        /\ req[r].name = S("email_verifier")
        /\ req[r].arguments.email = S("a@b.com")
        /\ reply[r].body = Obj(<<KV("data", DataFull)>>)
        /\ response[r].content[1].text # "{}"

\* C10: a domain_search of main.py without a usable limit (absent or null)
\* sends limit=10, a supplied integer limit is sent unchanged, and type is
\* sent only when it was supplied.
C10_DefaultLimit ==
    \A r \in DOMAIN pc :
        (/\ server = "main"
         /\ req[r].kind = "object" /\ req[r].name = S("domain_search")
         /\ outbound[r] # <<>>)
            => LET a == BodyArguments(req[r])
                   p == outbound[r][1].params
               IN  /\ p.limit = (IF a.limit.t = "int" THEN a.limit ELSE I(10))
                   /\ (p.type # Absent => p.type = a.type)


\* text holds needle as a substring
Contains(text, needle) ==
    \E i \in 1..(Len(text) - Len(needle) + 1) :
        SubSeq(text, i, i + Len(needle) - 1) = needle

\* a log record whose message, or the dictionary formatted into it, holds the key
RecordHoldsKey(rec) ==
    \/ Contains(rec.text, ApiKey)
    \/ /\ rec.data # Absent
       /\ \E k \in DOMAIN rec.data :
              rec.data[k].t = "str" /\ Contains(rec.data[k].s, ApiKey)

\* an HTTP response whose body holds the key
ResponseHoldsKey(resp) ==
    CASE resp.kind = "error"     -> Contains(resp.error, ApiKey)
      [] resp.kind = "result"    -> \E i \in 1..Len(resp.content) :
                                        Contains(resp.content[i].text, ApiKey)
      [] resp.kind = "unhandled" -> Contains(resp.exc.msg, ApiKey)
      [] OTHER                   -> FALSE

\* C11: the API key is in no written log record, in no HTTP response and in
\* no SSE event, whatever calls were made and however they ended.
C11_KeyNeverLeaks ==
    /\ \A r \in DOMAIN pc :
          /\ \A i \in 1..Len(log[r]) : ~RecordHoldsKey(log[r][i])
          /\ ~ResponseHoldsKey(response[r])
    /\ \A s \in DOMAIN spc :
          /\ \A i \in 1..Len(emitted[s]) : ~Contains(emitted[s][i].data, ApiKey)
          /\ \A i \in 1..Len(sselog[s]) : ~RecordHoldsKey(sselog[s][i])


\* C12: under any interleaving of concurrent tool calls the HTTP session is
\* constructed at most once: once set it is never replaced or reset, a
\* request that has issued a call finds it set, and every outbound call was
\* made on that one session.
C12_SessionCreatedOnce ==
    [][/\ session # PyNone => session' = session
       /\ created' <= 1
       /\ \A r \in DOMAIN pc :
             outbound'[r] # <<>>
                => (session' # PyNone /\ outbound'[r][1].session = session')]_vars

C12_Witness ==
    \E r, q \in DOMAIN pc :
        /\ r # q
        /\ pc[r] = "awaiting" /\ pc[q] = "awaiting"
        /\ created = 1
        /\ session # PyNone
        /\ outbound[r][1].session = session
        /\ outbound[q][1].session = session

=============================================================================
